---- MODULE Spec2Model ----
(***************************************************************************)
(* A model of fluke_temperature_source.py: the serial protocol engine      *)
(* (write / read with duplex echo handling), the response grammars and     *)
(* the accessors of fluke_base, fluke_9141 and fluke_6020.                 *)
(*                                                                         *)
(* Text is a sequence of one-character strings, so that encoding,          *)
(* stripping, substring tests and regular-expression matching are          *)
(* computed the way the code computes them.  A Python float is the         *)
(* integer number of 1/Scale units it denotes.                             *)
(***************************************************************************)
EXTENDS Integers, Sequences, FiniteSets, TLC

\* ------------------------------------------------------------------ text

CR == "\r"
LF == "\n"

Digits == <<"0", "1", "2", "3", "4", "5", "6", "7", "8", "9">>
DigitSet == {Digits[i] : i \in 1..10}
\* The characters Python's str.strip() removes and \s matches.
Whitespace == {" ", "\t", "\n", "\r", "\f"}
LowerCase == <<"a","b","c","d","e","f","g","h","i","j","k","l","m",
               "n","o","p","q","r","s","t","u","v","w","x","y","z">>
UpperCase == <<"A","B","C","D","E","F","G","H","I","J","K","L","M",
               "N","O","P","Q","R","S","T","U","V","W","X","Y","Z">>

\* str.lower() on one character, then on a text.
LowerChar(c) ==
    IF \E i \in 1..26 : UpperCase[i] = c
    THEN LowerCase[CHOOSE i \in 1..26 : UpperCase[i] = c]
    ELSE c

Lower(s) == [i \in 1..Len(s) |-> LowerChar(s[i])]

\* The text of a Python str atom written in the model as a TLA+ string:
\* only the tokens the program itself uses are spelled out.
Chars(tok) ==
    CASE tok = "t" -> <<"t">>
      [] tok = "s" -> <<"s">>
      [] tok = "u" -> <<"u">>
      [] tok = "c" -> <<"c">>
      [] tok = "f" -> <<"f">>
      [] tok = "C" -> <<"C">>
      [] tok = "F" -> <<"F">>
      [] tok = "k" -> <<"k">>
      [] tok = "v" -> <<"v">>
      [] tok = "du" -> <<"d", "u">>
      [] tok = "pr" -> <<"p", "r">>
      [] tok = "po" -> <<"p", "o">>
      [] tok = "sc" -> <<"s", "c">>
      [] tok = "sr" -> <<"s", "r">>
      [] tok = "ho" -> <<"h", "o">>
      [] tok = "hl" -> <<"h", "l">>
      [] tok = "*ver" -> <<"*", "v", "e", "r">>
      [] tok = "half" -> <<"h", "a", "l", "f">>
      [] tok = "full" -> <<"f", "u", "l", "l">>
      [] tok = "Full" -> <<"F", "u", "l", "l">>
      [] tok = "simplex" -> <<"s", "i", "m", "p", "l", "e", "x">>
      [] tok = "on" -> <<"o", "n">>
      [] tok = "off" -> <<"o", "f", "f">>
      [] tok = "ON" -> <<"O", "N">>
      [] tok = "OFF" -> <<"O", "F", "F">>
      [] tok = "auto" -> <<"a", "u", "t", "o">>
      [] tok = "fast" -> <<"f", "a", "s", "t">>
      [] tok = "" -> <<>>

\* bytes.strip() / str.strip(): leading and trailing whitespace removed.
RECURSIVE LStrip(_)
LStrip(s) ==
    IF s # <<>> /\ Head(s) \in Whitespace THEN LStrip(Tail(s)) ELSE s

RECURSIVE RStrip(_)
RStrip(s) ==
    IF s # <<>> /\ s[Len(s)] \in Whitespace
    THEN RStrip(SubSeq(s, 1, Len(s) - 1))
    ELSE s

Strip(s) == RStrip(LStrip(s))

\* Python's `a in b` on str: a occurs in b as a contiguous substring.
Contains(b, a) ==
    \E i \in 0..(Len(b) - Len(a)) : SubSeq(b, i + 1, i + Len(a)) = a

\* Index of the first occurrence of character c in s, 0 when absent.
FirstIndex(s, c) ==
    IF \E i \in 1..Len(s) : s[i] = c
    THEN CHOOSE i \in 1..Len(s) : s[i] = c /\ \A j \in 1..(i - 1) : s[j] # c
    ELSE 0

\* ----------------------------------------------------- regular expressions

\* Every character a line of the model may hold.
Alphabet ==
    DigitSet \cup {LowerCase[i] : i \in 1..26} \cup {UpperCase[i] : i \in 1..26}
    \cup Whitespace \cup {":", ".", ",", "=", "*", "-", "_", "?"}

\* The classes the source's patterns use: \s, \d, '.', [CF] and literals.
ClsSpace == Whitespace
ClsDigit == DigitSet
ClsAny == Alphabet \ {LF}

\* One pattern element: a character class, its quantifier (lo..hi
\* repetitions, hi = -1 for unbounded) and the capture group it lies in
\* (0: none).
Lit(c) == [cls |-> {c}, lo |-> 1, hi |-> 1, g |-> 0]
One(cls, g) == [cls |-> cls, lo |-> 1, hi |-> 1, g |-> g]
Plus(cls, g) == [cls |-> cls, lo |-> 1, hi |-> -1, g |-> g]
Star(cls, g) == [cls |-> cls, lo |-> 0, hi |-> -1, g |-> g]

RECURSIVE LitSeq(_, _)
LitSeq(s, g) ==
    IF s = <<>> THEN <<>> ELSE <<One({Head(s)}, g)>> \o LitSeq(Tail(s), g)

\* The matcher's failure: no tuple of counts holds a negative one.
NoMatch == <<-1>>

\* The longest run of characters of cls in s after position pos.
RECURSIVE Run(_, _, _)
Run(s, pos, cls) ==
    IF pos < Len(s) /\ s[pos + 1] \in cls THEN 1 + Run(s, pos + 1, cls) ELSE 0

\* Greedy matching with backtracking, as the regex engine does it: element
\* k takes as many characters as it can and gives one back at a time until
\* the rest of the pattern matches.  The result is the number of characters
\* each element took, or NoMatch.
RECURSIVE MatchFrom(_, _, _, _)
RECURSIVE TryCount(_, _, _, _, _)
TryCount(pat, k, s, pos, n) ==
    IF n < pat[k].lo
    THEN NoMatch
    ELSE LET rest == MatchFrom(pat, k + 1, s, pos + n)
         IN  IF rest # NoMatch THEN <<n>> \o rest
             ELSE TryCount(pat, k, s, pos, n - 1)

MatchFrom(pat, k, s, pos) ==
    IF k > Len(pat)
    THEN <<>>
    ELSE LET run == Run(s, pos, pat[k].cls)
             most == IF pat[k].hi = -1 \/ run < pat[k].hi THEN run ELSE pat[k].hi
         IN  TryCount(pat, k, s, pos, most)

RECURSIVE SumTo(_, _)
SumTo(counts, k) == IF k = 0 THEN 0 ELSE counts[k] + SumTo(counts, k - 1)

\* match.group(g) of a match of pat on s that took counts.
GroupText(pat, s, counts, g) ==
    LET ks == {k \in 1..Len(pat) : pat[k].g = g}
        first == CHOOSE k \in ks : \A j \in ks : k <= j
        last == CHOOSE k \in ks : \A j \in ks : j <= k
    IN  SubSeq(s, SumTo(counts, first - 1) + 1, SumTo(counts, last))

NGroups(pat) ==
    LET gs == {pat[k].g : k \in 1..Len(pat)}
    IN  CHOOSE n \in gs : \A m \in gs : m <= n

\* re.match(pattern, s): the pattern is anchored at the start of s only.
\* alts is the pattern's alternatives in the order the engine tries them
\* (one alternative when the pattern has no '|').  The result says whether
\* it is None and holds the groups' texts otherwise.
RECURSIVE re_match(_, _)
re_match(alts, s) ==
    IF alts = <<>>
    THEN [none |-> TRUE, group |-> <<>>]
    ELSE LET pat == Head(alts)
             counts == MatchFrom(pat, 1, s, 0)
         IN  IF counts # NoMatch
             THEN [none |-> FALSE,
                   group |-> [g \in 1..NGroups(pat) |-> GroupText(pat, s, counts, g)]]
             ELSE re_match(Tail(alts), s)

\* ---------------------------------------------------------------- numbers

\* A float is held as the integer count of 1/Scale units: ScaleDigits
\* decimals are kept.
ScaleDigits == 5

DigitVal(c) == (CHOOSE i \in 1..10 : Digits[i] = c) - 1

RECURSIVE Pow10(_)
Pow10(n) == IF n = 0 THEN 1 ELSE 10 * Pow10(n - 1)

Scale == Pow10(ScaleDigits)

\* int(text) for a text of decimal digits.
RECURSIVE int(_)
int(s) ==
    IF s = <<>> THEN 0 ELSE 10 * int(SubSeq(s, 1, Len(s) - 1)) + DigitVal(s[Len(s)])

AllDigits(s) == s # <<>> /\ \A i \in 1..Len(s) : s[i] \in DigitSet

\* float() raising ValueError: no float the patterns can capture is negative.
ValueError == -1

\* float(text) for the texts a capture group \d+.\d+ can hold: digits, one
\* arbitrary character, digits.  Python accepts a digit, '.', '_', 'e' or 'E'
\* in the middle and raises ValueError for anything else.
float(s) ==
    LET mid == CHOOSE i \in 1..Len(s) :
                  /\ s[i] \notin DigitSet \/ i = Len(s)
                  /\ \A j \in 1..(i - 1) : s[j] \in DigitSet
        a == SubSeq(s, 1, mid - 1)
        b == SubSeq(s, mid + 1, Len(s))
    IN  IF AllDigits(s) THEN int(s) * Scale
        ELSE IF ~(AllDigits(a) /\ AllDigits(b)) THEN ValueError
        ELSE IF s[mid] = "."
             THEN IF Len(b) <= ScaleDigits
                  THEN int(a) * Scale + int(b) * Pow10(ScaleDigits - Len(b))
                  ELSE int(a) * Scale + int(SubSeq(b, 1, ScaleDigits))
        ELSE IF s[mid] = "_" THEN int(a \o b) * Scale
        ELSE IF s[mid] \in {"e", "E"} THEN int(a) * Pow10(int(b)) * Scale
        ELSE ValueError

\* str(n) for an int n.
RECURSIVE NatStr(_)
NatStr(n) ==
    IF n < 10 THEN <<Digits[n + 1]>> ELSE NatStr(n \div 10) \o <<Digits[(n % 10) + 1]>>

IntStr(n) == IF n < 0 THEN <<"-">> \o NatStr(-n) ELSE NatStr(n)

\* The decimals of a fraction of frac/Scale, trailing zeros dropped.
RECURSIVE FracStr(_, _)
FracStr(frac, width) ==
    IF width = 0 \/ frac = 0 THEN <<>>
    ELSE <<Digits[(frac \div Pow10(width - 1)) + 1]>>
         \o FracStr(frac % Pow10(width - 1), width - 1)

\* n > 0 without its trailing zeros.
RECURSIVE TrimZeros(_)
TrimZeros(n) == IF n % 10 = 0 THEN TrimZeros(n \div 10) ELSE n

\* repr of a float of a/Scale below 0.0001: the shortest digits d, as
\* d[1], then '.' and the rest when there is one, then 'e-' and the
\* exponent in two digits at least.
ExpStr(a) ==
    LET d == NatStr(TrimZeros(a))
        exponent == ScaleDigits - Len(NatStr(a)) + 1
    IN  <<d[1]>> \o (IF Len(d) > 1 THEN <<".">> \o SubSeq(d, 2, Len(d)) ELSE <<>>)
        \o <<"e", "-">> \o (IF exponent < 10 THEN <<"0">> ELSE <<>>)
        \o NatStr(exponent)

\* str(x) for a float x (repr): positional notation with at least one
\* decimal, and exponent notation for a nonzero x below 0.0001 in size.
\* (repr also turns to exponent notation from 1e16 on; the model hands
\* the setters no such float.)
FloatStr(x) ==
    LET a == IF x < 0 THEN -x ELSE x
        sign == IF x < 0 THEN <<"-">> ELSE <<>>
        frac == FracStr(a % Scale, ScaleDigits)
    IN  IF a # 0 /\ a < Scale \div 10000 THEN sign \o ExpStr(a)
        ELSE sign \o NatStr(a \div Scale) \o <<".">>
                  \o (IF frac = <<>> THEN <<"0">> ELSE frac)

\* round(x) cutting the decimals off.
round_truncating(x) == IF x >= 0 THEN x \div Scale ELSE -((-x) \div Scale)

\* round(x) for a float x: to the nearest integer, a tie to the even one.
round(x) ==
    LET fl == IF x >= 0 THEN x \div Scale ELSE -((-x + Scale - 1) \div Scale)
        rem == x - fl * Scale
    IN  IF 2 * rem > Scale THEN fl + 1
        ELSE IF 2 * rem < Scale THEN fl
        ELSE IF fl % 2 = 0 THEN fl ELSE fl + 1

\* Python values handed to the setters: [t |-> type name, v |-> value].
PyInt(n) == [t |-> "int", v |-> n]
PyFloat(x) == [t |-> "float", v |-> x]
PyStr(s) == [t |-> "str", v |-> s]
PyBool(b) == [t |-> "bool", v |-> b]
PyNone == [t |-> "NoneType", v |-> 0]

\* type(value) in [int, float]
IsNumber(val) == val.t \in {"int", "float"}

\* The number a numeric value denotes, in 1/Scale units (for comparisons).
Num(val) == IF val.t = "int" THEN val.v * Scale ELSE val.v

\* str(value)
str(val) ==
    CASE val.t = "int" -> IntStr(val.v)
      [] val.t = "float" -> FloatStr(val.v)
      [] val.t = "str" -> val.v
      [] val.t = "bool" -> IF val.v THEN <<"T", "r", "u", "e">>
                           ELSE <<"F", "a", "l", "s", "e">>
      [] val.t = "NoneType" -> <<"N", "o", "n", "e">>

\* ------------------------------------------------------------ instrument
\* The lines the instrument may send (without the CR LF it ends them with).
\* 't:  23.50 C'
Line_t_C ==
    <<"t", ":", " ", " ", "2", "3", ".", "5", "0", " ", "C">>
\* 't:  74.30 F'
Line_t_F ==
    <<"t", ":", " ", " ", "7", "4", ".", "3", "0", " ", "F">>
\* 't: 23x50 C'
Line_t_x ==
    <<"t", ":", " ", "2", "3", "x", "5", "0", " ", "C">>
\* 'set: 100.00 C'
Line_set_C ==
    <<"s", "e", "t", ":", " ", "1", "0", "0", ".", "0", "0", " ", "C">>
\* 'set: 212.00 F'
Line_set_F ==
    <<"s", "e", "t", ":", " ", "2", "1", "2", ".", "0", "0", " ", "F">>
\* 'u: C'
Line_u_C ==
    <<"u", ":", " ", "C">>
\* 'u: F'
Line_u_F ==
    <<"u", ":", " ", "F">>
\* 'pr: 5.0'
Line_pr ==
    <<"p", "r", ":", " ", "5", ".", "0">>
\* 'po: 12.5'
Line_po ==
    <<"p", "o", ":", " ", "1", "2", ".", "5">>
\* 'ver.9141,1.20'
Line_ver ==
    <<"v", "e", "r", ".", "9", "1", "4", "1", ",", "1", ".", "2", "0">>
\* 'ver.dd,d.d'
Line_ver_d ==
    <<"v", "e", "r", ".", "d", "d", ",", "d", ".", "d">>
\* 'scan: ON'
Line_scan_ON ==
    <<"s", "c", "a", "n", ":", " ", "O", "N">>
\* 'scan: OFF'
Line_scan_OFF ==
    <<"s", "c", "a", "n", ":", " ", "O", "F", "F">>
\* 'srat: 10.0'
Line_srat ==
    <<"s", "r", "a", "t", ":", " ", "1", "0", ".", "0">>
\* 'hold: open, 23.50 C'
Line_hold_C ==
    <<"h", "o", "l", "d", ":", " ", "o", "p", "e", "n", ",", " ", "2", "3", ".", "5", "0", " ", "C">>
\* 'hold: closed, 74.30 F'
Line_hold_F ==
    <<"h", "o", "l", "d", ":", " ", "c", "l", "o", "s", "e", "d", ",", " ", "7", "4", ".", "3", "0", " ", "F">>
\* 'hl: 126'
Line_hl ==
    <<"h", "l", ":", " ", "1", "2", "6">>
\* 'v: 0.00010'
Line_v ==
    <<"v", ":", " ", "0", ".", "0", "0", "0", "1", "0">>
\* 'c: 10 C, in'
Line_c_in ==
    <<"c", ":", " ", "1", "0", " ", "C", ",", " ", "i", "n">>
\* 'c: 10 C, out'
Line_c_out ==
    <<"c", ":", " ", "1", "0", " ", "C", ",", " ", "o", "u", "t">>
\* 'c: 50 F, in'
Line_c_F ==
    <<"c", ":", " ", "5", "0", " ", "F", ",", " ", "i", "n">>
\* 'garbage'
Line_garbage ==
    <<"g", "a", "r", "b", "a", "g", "e">>

\* The object None: no text equals it (a text holds single characters).
None == <<"None">>

\* What the instrument sent in answer to a command: no reply line at all.
NoReply == <<"NoReply">>

\* The reply lines the instrument may give to a query, by command token:
\* its well-formed replies in either unit and a line of no grammar.
Replies(command) ==
    (CASE command = Chars("t") -> {Line_t_C, Line_t_F, Line_t_x}
       [] command = Chars("s") -> {Line_set_C, Line_set_F}
       [] command = Chars("u") -> {Line_u_C, Line_u_F}
       [] command = Chars("pr") -> {Line_pr}
       [] command = Chars("po") -> {Line_po}
       [] command = Chars("*ver") -> {Line_ver, Line_ver_d}
       [] command = Chars("sc") -> {Line_scan_ON, Line_scan_OFF}
       [] command = Chars("sr") -> {Line_srat}
       [] command = Chars("ho") -> {Line_hold_C, Line_hold_F}
       [] command = Chars("hl") -> {Line_hl}
       [] command = Chars("v") -> {Line_v}
       [] command = Chars("c") -> {Line_c_in, Line_c_out, Line_c_F}
       [] OTHER -> {})
    \cup {Line_garbage}

\* What the transport and the instrument do during one command exchange:
\*   io     "ok", or the transport raises SerialException in write
\*          ("wfail") or in readline ("rfail");
\*   echo   the instrument's echo of the command line: "none", "ok" (the
\*          line as sent) or "garbled";
\*   reply  the reply line, or NoReply (the read times out).
Env(io, echo, reply) == [io |-> io, echo |-> echo, reply |-> reply]

\* The exchanges possible for a query and for a command that sets a value
\* (the instrument answers a set command with no line).
QueryEnvs(command) ==
    {Env("wfail", "none", NoReply), Env("rfail", "none", NoReply),
     Env("ok", "garbled", NoReply)}
    \cup {Env("ok", echo, reply) : echo \in {"none", "ok"},
                                   reply \in Replies(command) \cup {NoReply}}

SetEnvs ==
    {Env("wfail", "none", NoReply)}
    \cup {Env("ok", echo, NoReply) : echo \in {"none", "ok", "garbled"}}

\* The instrument's settings after it received line: 'du=<mode>' sets its
\* duplex mode, 'u=<unit>' its unit (either case); anything else leaves them.
DevDuplexAfter(dev_duplex, line) ==
    IF line = Chars("du") \o <<"=">> \o Chars("half") \o <<CR, LF>> THEN "half"
    ELSE IF line = Chars("du") \o <<"=">> \o Chars("full") \o <<CR, LF>> THEN "full"
    ELSE dev_duplex

DevUnitAfter(dev_unit, line) ==
    IF Lower(line) = Chars("u") \o <<"=">> \o Chars("c") \o <<CR, LF>> THEN "c"
    ELSE IF Lower(line) = Chars("u") \o <<"=">> \o Chars("f") \o <<CR, LF>> THEN "f"
    ELSE dev_unit

\* The instrument echoes only in full duplex (before or after the command
\* took effect); in full duplex the echo may also be lost or garbled.  An
\* exchange in which nothing was written is the silent one.
EnvPossible(w, r, e) ==
    /\ e.echo # "none" => w.dev_duplex = "full" \/ r.w.dev_duplex = "full"
    /\ r.w.wire = w.wire => e \in {Env("wfail", "none", NoReply), Env("ok", "none", NoReply)}

\* The bytes the instrument puts on the line in answer to line.
EchoBytes(line, e) ==
    CASE e.echo = "ok" -> line
      [] e.echo = "garbled" -> <<"?", CR, LF>>
      [] OTHER -> <<>>

ReplyBytes(e) == IF e.reply = NoReply THEN <<>> ELSE e.reply \o <<CR, LF>>

\* -------------------------------------------------------------- transport

\* Serial.read_until(terminator): the bytes up to and including the first
\* terminator, or all the bytes received when the timeout ends the read.
read_until(rx, terminator) ==
    LET i == FirstIndex(rx, terminator)
    IN  IF i = 0 THEN [data |-> rx, rest |-> <<>>]
        ELSE [data |-> SubSeq(rx, 1, i), rest |-> SubSeq(rx, i + 1, Len(rx))]

\* Serial.readline(): read_until(LF).
readline(rx) == read_until(rx, LF)

\* ------------------------------------------------------ protocol engine

\* The world one call runs in, w: the object's fields (duplex_mode and
\* temperature_unit as fluke_base's methods see them, connection.is_open),
\* the transport's unread input rx, the instrument's own settings, and what
\* the call did so far: writes, its calls of connection.write, wire, the
\* lines that reached the instrument, reads, its readline calls, and
\* closes, its calls of connection.close.
\* A call's outcome: the world after it, the failure raised (NoExc when
\* it returned), the raw line a failure's message carries, the value
\* returned.
NoExc == "none"
Return(w, ret) == [w |-> w, exc |-> NoExc, raw |-> <<>>, ret |-> ret]
Raise(w, kind, raw) == [w |-> w, exc |-> kind, raw |-> raw, ret |-> None]

\* The failures, named as the raise sites' messages state them.
ValidationFailure == "ValidationFailure"
TransportFailure == "TransportFailure"
ConnectionFailure == "ConnectionFailure"
EchoFailure == "EchoFailure"
NoDataFailure == "NoDataFailure"
FormatFailure == "FormatFailure"
UnitConsistencyFailure == "UnitConsistencyFailure"
CutoutFailure == "CutoutFailure"
\* Python's own: an attribute the object does not have, float() of a text
\* that is no number.
AttributeError == "AttributeError"
ConversionError == "ConversionError"

\* f'{command}' or f'{command}={value}', then CR LF.
Encode(command, value) ==
    IF value = None THEN command \o <<CR, LF>>
    ELSE command \o <<"=">> \o value \o <<CR, LF>>

\* connection.write(bytes): raises when the port is closed or the transport
\* fails; otherwise the line is on the wire, the instrument takes it and
\* its answer arrives in the input buffer.
transport_write(w, line, e) ==
    IF ~w.is_open \/ e.io = "wfail"
    THEN Raise([w EXCEPT !.writes = @ + 1], TransportFailure, <<>>)
    ELSE Return([w EXCEPT !.writes = @ + 1,
                          !.wire = Append(@, line),
                          !.rx = @ \o EchoBytes(line, e) \o ReplyBytes(e),
                          !.dev_duplex = DevDuplexAfter(@, line),
                          !.dev_unit = DevUnitAfter(@, line)],
                Len(line))

\* write's comparison of the echo with the command sent: got is what
\* read_until(CR) gave, decoded and stripped.
check_echo(w, command, got, echo) ==
    IF ~Contains(echo, command)
    THEN Raise([w EXCEPT !.rx = got.rest], EchoFailure, echo)
    ELSE Return([w EXCEPT !.rx = got.rest], None)

\* write after connection.write: the echo is read and compared only when
\* the object's duplex mode is "full".
write_echo(duplex_mode, command, sent) ==
    IF sent.exc # NoExc THEN sent
    ELSE IF duplex_mode = Chars("full")
    THEN check_echo(sent.w, command, read_until(sent.w.rx, CR),
                    Strip(read_until(sent.w.rx, CR).data))
    ELSE Return(sent.w, None)

\* fluke_base.write.  connection.write returns the number of bytes written,
\* never None, so the 'no echo received' raise cannot happen.
write(w, command, value, e) ==
    write_echo(w.duplex_mode, command, transport_write(w, Encode(command, value), e))

\* read after readline: bytes (empty on a timeout) never equal None.
read_decode(w, got) ==
    IF got.data = None
    THEN Raise([w EXCEPT !.rx = got.rest, !.reads = @ + 1], NoDataFailure, <<>>)
    ELSE Return([w EXCEPT !.rx = got.rest, !.reads = @ + 1], Strip(got.data))

\* read with a second readline after one that raised.
read_line_retrying(wr, e) ==
    IF wr.exc # NoExc THEN wr
    ELSE IF e.io = "rfail"
    THEN read_decode([wr.w EXCEPT !.reads = @ + 1], readline(wr.w.rx))
    ELSE read_decode(wr.w, readline(wr.w.rx))

\* read after write: readline raises, or gives the bytes received.
read_line(wr, e) ==
    IF wr.exc # NoExc THEN wr
    ELSE IF e.io = "rfail"
    THEN Raise([wr.w EXCEPT !.reads = @ + 1], TransportFailure, <<>>)
    ELSE read_decode(wr.w, readline(wr.w.rx))

\* fluke_base.read
read(w, command, e) == read_line(write(w, command, None, e), e)

\* fluke_base.set_duplex_mode: returns None and assigns nothing.
allowed_duplex_modes == {Chars("half"), Chars("full")}

set_duplex_mode(w, duplex, e) ==
    IF duplex \notin allowed_duplex_modes
    THEN Raise(w, ValidationFailure, <<>>)
    ELSE write(w, Chars("du"), duplex, e)

\* ------------------------------------------------------ response grammars

\* (\d+.\d+) as group g: digits, any one character, digits.
Decimal(g) == <<Plus(ClsDigit, g), One(ClsAny, g), Plus(ClsDigit, g)>>

\* r"t:\s+(\d+.\d+)\s+([CF])"
pattern_temperature ==
    <<LitSeq(<<"t", ":">>, 0) \o <<Plus(ClsSpace, 0)>> \o Decimal(1)
      \o <<Plus(ClsSpace, 0), One({"C", "F"}, 2)>> >>

\* r"set:\s+(\d+.\d+)\s+([CF])"
pattern_setpoint ==
    <<LitSeq(<<"s", "e", "t", ":">>, 0) \o <<Plus(ClsSpace, 0)>> \o Decimal(1)
      \o <<Plus(ClsSpace, 0), One({"C", "F"}, 2)>> >>

\* r"u:\s+([CF])"
pattern_unit ==
    <<LitSeq(<<"u", ":">>, 0) \o <<Plus(ClsSpace, 0), One({"C", "F"}, 1)>> >>

\* r"pr:\s+(\d+.\d+)"
pattern_proportional_band ==
    <<LitSeq(<<"p", "r", ":">>, 0) \o <<Plus(ClsSpace, 0)>> \o Decimal(1)>>

\* r"po:\s+(\d+.\d+)"
pattern_heater_power ==
    <<LitSeq(<<"p", "o", ":">>, 0) \o <<Plus(ClsSpace, 0)>> \o Decimal(1)>>

\* r"ver.(d+),\s*(d+.d+)": the letter d, not the class \d.
pattern_firmware_version ==
    <<LitSeq(<<"v", "e", "r">>, 0) \o <<One(ClsAny, 0), Plus({"d"}, 1), Lit(",")>>
      \o <<Star(ClsSpace, 0), Plus({"d"}, 2), One(ClsAny, 2), Plus({"d"}, 2)>> >>

\* r"scan:\s+(ON|OFF)"
pattern_scan_mode ==
    <<LitSeq(<<"s", "c", "a", "n", ":">>, 0) \o <<Plus(ClsSpace, 0)>>
        \o LitSeq(<<"O", "N">>, 1),
      LitSeq(<<"s", "c", "a", "n", ":">>, 0) \o <<Plus(ClsSpace, 0)>>
        \o LitSeq(<<"O", "F", "F">>, 1)>>

\* r"srat:\s+(\d+.\d+)"
pattern_scan_rate ==
    <<LitSeq(<<"s", "r", "a", "t", ":">>, 0) \o <<Plus(ClsSpace, 0)>> \o Decimal(1)>>

\* r"hold:\s+(open|closed),\s+(\d+.\d+)\s+[CF]": the unit is not a group.
HoldTail ==
    <<Lit(","), Plus(ClsSpace, 0)>> \o Decimal(2)
    \o <<Plus(ClsSpace, 0), One({"C", "F"}, 0)>>

pattern_switch_hold ==
    <<LitSeq(<<"h", "o", "l", "d", ":">>, 0) \o <<Plus(ClsSpace, 0)>>
        \o LitSeq(<<"o", "p", "e", "n">>, 1) \o HoldTail,
      LitSeq(<<"h", "o", "l", "d", ":">>, 0) \o <<Plus(ClsSpace, 0)>>
        \o LitSeq(<<"c", "l", "o", "s", "e", "d">>, 1) \o HoldTail>>

\* r"hl:\s+(\d+)"
pattern_high_limit ==
    <<LitSeq(<<"h", "l", ":">>, 0) \o <<Plus(ClsSpace, 0), Plus(ClsDigit, 1)>> >>

\* r"v:\s+(\d+.\d+)"
pattern_vernier ==
    <<LitSeq(<<"v", ":">>, 0) \o <<Plus(ClsSpace, 0)>> \o Decimal(1)>>

\* r"c:\s+(\d+)\s+([CF]),\s+(in|out)"
CutoutHead ==
    LitSeq(<<"c", ":">>, 0)
    \o <<Plus(ClsSpace, 0), Plus(ClsDigit, 1), Plus(ClsSpace, 0),
         One({"C", "F"}, 2), Lit(","), Plus(ClsSpace, 0)>>

pattern_cutout ==
    <<CutoutHead \o LitSeq(<<"i", "n">>, 3),
      CutoutHead \o LitSeq(<<"o", "u", "t">>, 3)>>

\* ------------------------------------------------------------- fluke_base

\* The classes.
Classes == {"fluke_base", "fluke_9141", "fluke_6020"}

\* A getter's steps after read(): r is read's outcome; the line is matched
\* against the getter's pattern and, on a match m, decoded by the getter.
\* (read never returns None, so 'Failed to receive data.' is never raised.)
MatchOf(r, pattern) ==
    IF r.exc # NoExc \/ r.ret = None THEN [none |-> TRUE, group |-> <<>>]
    ELSE re_match(pattern, r.ret)

Unmatched(r, m) ==
    IF r.exc # NoExc THEN r
    ELSE IF r.ret = None THEN Raise(r.w, NoDataFailure, <<>>)
    ELSE Raise(r.w, FormatFailure, r.ret)

\* return float(text)
ReturnFloat(w, text, x) ==
    IF x = ValueError THEN Raise(w, ConversionError, text) ELSE Return(w, x)

\* The decoding of get_temperature and get_setpoint: the unit letter (group
\* 2) is compared with the session unit, then the value (group 1) returned.
decode_with_unit(r, m) ==
    IF r.exc # NoExc \/ r.ret = None \/ m.none THEN Unmatched(r, m)
    ELSE IF Lower(m.group[2]) # Lower(r.w.temperature_unit)
    THEN Raise(r.w, UnitConsistencyFailure, m.group[2])
    ELSE ReturnFloat(r.w, m.group[1], float(m.group[1]))

\* The decoding of a response that holds one float.
decode_float(r, m) ==
    IF r.exc # NoExc \/ r.ret = None \/ m.none THEN Unmatched(r, m)
    ELSE ReturnFloat(r.w, m.group[1], float(m.group[1]))

\* The decoding of a response that holds one token, returned in lower case.
decode_token(r, m) ==
    IF r.exc # NoExc \/ r.ret = None \/ m.none THEN Unmatched(r, m)
    ELSE Return(r.w, Lower(m.group[1]))

matched_with_unit(r, pattern) == decode_with_unit(r, MatchOf(r, pattern))
matched_float(r, pattern) == decode_float(r, MatchOf(r, pattern))
matched_token(r, pattern) == decode_token(r, MatchOf(r, pattern))

get_temperature(w, e) ==
    matched_with_unit(read(w, Chars("t"), e), pattern_temperature)

get_setpoint(w, e) ==
    matched_with_unit(read(w, Chars("s"), e), pattern_setpoint)

set_setpoint(w, value, e) ==
    IF ~IsNumber(value) THEN Raise(w, ValidationFailure, <<>>)
    ELSE write(w, Chars("s"), str(value), e)

\* get_unit keeping the unit it read as the session's unit.
keep_unit(r) ==
    IF r.exc # NoExc THEN r ELSE [r EXCEPT !.w.temperature_unit = r.ret]

get_unit_keeping(w, e) ==
    keep_unit(matched_token(read(w, Chars("u"), e), pattern_unit))

get_unit(w, e) ==
    matched_token(read(w, Chars("u"), e), pattern_unit)

allowed_temperature_units == {Chars("f"), Chars("c")}

\* set_unit with the check of the re-query's answer left out.
set_unit_update_trusting(unit, q) ==
    IF q.exc # NoExc THEN q
    ELSE Return([q.w EXCEPT !.temperature_unit = Lower(unit)], None)

\* set_unit with the session unit assigned before the re-query is made.
set_unit_update_early(unit, q) ==
    IF q.exc # NoExc THEN [q EXCEPT !.w.temperature_unit = Lower(unit)]
    ELSE IF Lower(q.ret) = Lower(unit)
    THEN Return([q.w EXCEPT !.temperature_unit = Lower(unit)], None)
    ELSE Return(q.w, None)

\* set_unit's last two lines: the session unit is assigned only when the
\* re-query q returned and reports the unit asked for.
set_unit_update(unit, q) ==
    IF q.exc # NoExc THEN q
    ELSE IF Lower(q.ret) = Lower(unit)
    THEN Return([q.w EXCEPT !.temperature_unit = Lower(unit)], None)
    ELSE Return(q.w, None)

\* set_unit's validation and write of 'u=<unit>', unit sent as given.
set_unit_write(w, unit, e1) ==
    IF Lower(unit) \notin allowed_temperature_units
    THEN Raise(w, ValidationFailure, <<>>)
    ELSE write(w, Chars("u"), unit, e1)

set_unit_query(unit, wr, e2) ==
    IF wr.exc # NoExc THEN wr
    ELSE set_unit_update(unit, get_unit(wr.w, e2))

\* fluke_base.set_unit: e1 is the exchange of 'u=<unit>', e2 that of the
\* re-query 'u'.
set_unit(w, unit, e1, e2) ==
    set_unit_query(unit, set_unit_write(w, unit, e1), e2)

get_proportional_band(w, e) ==
    matched_float(read(w, Chars("pr"), e), pattern_proportional_band)

set_proportional_band(w, band, e) ==
    IF ~IsNumber(band) THEN Raise(w, ValidationFailure, <<>>)
    ELSE IF Num(band) < 0 \/ Num(band) > 100 * Scale
    THEN Raise(w, ValidationFailure, <<>>)
    ELSE write(w, Chars("pr"), str(band), e)

get_heater_power(w, e) ==
    matched_float(read(w, Chars("po"), e), pattern_heater_power)

\* The version is group 2, stripped.
decode_version(r, m) ==
    IF r.exc # NoExc \/ r.ret = None \/ m.none THEN Unmatched(r, m)
    ELSE Return(r.w, Strip(m.group[2]))

matched_version(r, pattern) == decode_version(r, MatchOf(r, pattern))

get_firmware_version(w, e) ==
    matched_version(read(w, Chars("*ver"), e), pattern_firmware_version)

\* ------------------------------------------------------------- fluke_9141

allowed_scan_modes == {Chars("on"), Chars("off")}

set_scan_mode(w, mode, e) ==
    IF Lower(mode) \notin allowed_scan_modes
    THEN Raise(w, ValidationFailure, <<>>)
    ELSE write(w, Chars("sc"), Lower(mode), e)

get_scan_mode(w, e) ==
    matched_token(read(w, Chars("sc"), e), pattern_scan_mode)

\* The argument is sent as str() renders it, whatever its type.
set_scan_rate(w, rate, e) ==
    write(w, Chars("sr"), str(rate), e)

get_scan_rate(w, e) ==
    matched_float(read(w, Chars("sr"), e), pattern_scan_rate)

\* The response's unit letter is matched and not looked at.
return_hold(w, state, text, x) ==
    IF x = ValueError THEN Raise(w, ConversionError, text)
    ELSE Return(w, [switch_state |-> state, temperature |-> x])

decode_hold(r, m) ==
    IF r.exc # NoExc \/ r.ret = None \/ m.none THEN Unmatched(r, m)
    ELSE return_hold(r.w, Lower(m.group[1]), m.group[2], float(m.group[2]))

matched_hold(r, pattern) == decode_hold(r, MatchOf(r, pattern))

get_switch_hold(w, e) ==
    matched_hold(read(w, Chars("ho"), e), pattern_switch_hold)

\* round() of an int is the int.
set_high_limit(w, limit, e) ==
    IF ~IsNumber(limit) THEN Raise(w, ValidationFailure, <<>>)
    ELSE write(w, Chars("hl"),
               IntStr(IF limit.t = "int" THEN limit.v ELSE round(limit.v)), e)

decode_int(r, m) ==
    IF r.exc # NoExc \/ r.ret = None \/ m.none THEN Unmatched(r, m)
    ELSE Return(r.w, int(m.group[1]))

matched_int(r, pattern) == decode_int(r, MatchOf(r, pattern))

get_high_limit(w, e) ==
    matched_int(read(w, Chars("hl"), e), pattern_high_limit)

\* ------------------------------------------------------------- fluke_6020

\* The private (double underscore) attributes an object has, each under the
\* name of the class whose body assigns it: _fluke_base__encoding_format,
\* _fluke_base__duplex_mode, _fluke_base__temperature_unit.
PrivateAttributes ==
    {<<"fluke_base", "__encoding_format">>, <<"fluke_base", "__duplex_mode">>,
     <<"fluke_base", "__temperature_unit">>}

\* self.__name written in the body of class cls names the attribute
\* _cls__name.
HasPrivate(cls, name) == <<cls, name>> \in PrivateAttributes

get_vernier(w, e) ==
    matched_float(read(w, Chars("v"), e), pattern_vernier)

\* 9.99999
VernierMax == 999999 * (Scale \div 100000)

set_vernier(w, vernier, e) ==
    IF ~IsNumber(vernier) THEN Raise(w, ValidationFailure, <<>>)
    ELSE IF Num(vernier) < 0 \/ Num(vernier) > VernierMax
    THEN Raise(w, ValidationFailure, <<>>)
    ELSE write(w, Chars("v"), str(vernier), e)

\* get_cutout after the match: self.__temperature_unit is read in the body
\* of fluke_6020.
decode_cutout(r, m) ==
    IF r.exc # NoExc \/ r.ret = None \/ m.none THEN Unmatched(r, m)
    ELSE IF ~HasPrivate("fluke_6020", "__temperature_unit")
    THEN Raise(r.w, AttributeError, <<>>)
    ELSE IF Lower(m.group[2]) # Lower(r.w.temperature_unit)
    THEN Raise(r.w, UnitConsistencyFailure, m.group[2])
    ELSE IF m.group[3] = Chars("out") THEN Raise(r.w, CutoutFailure, <<>>)
    ELSE Return(r.w, float(m.group[1]))

matched_cutout(r, pattern) == decode_cutout(r, MatchOf(r, pattern))

get_cutout(w, e) ==
    matched_cutout(read(w, Chars("c"), e), pattern_cutout)

set_cutout(w, cutout, e) ==
    IF ~IsNumber(cutout) THEN Raise(w, ValidationFailure, <<>>)
    ELSE write(w, Chars("c"), str(cutout), e)

\* ----------------------------------------------------------- construction

\* fluke_base.open: Serial() raises, or gives a connection that is open or
\* is not.
open(w, opened) ==
    IF opened = "SerialException" THEN Raise(w, TransportFailure, <<>>)
    ELSE IF opened = "closed" THEN Raise(w, ConnectionFailure, <<>>)
    ELSE Return([w EXCEPT !.is_open = TRUE], None)

\* __init__ up to the assignment of the duplex mode: open, then
\* set_duplex_mode(duplex.lower()), whose return value (None) is assigned.
init_set_duplex(o, duplex, e1) ==
    IF o.exc # NoExc THEN o ELSE set_duplex_mode(o.w, Lower(duplex), e1)

init_duplex(d) ==
    IF d.exc # NoExc THEN d
    ELSE Return([d.w EXCEPT !.duplex_mode = d.ret], None)

\* __init__'s last line: get_unit()'s return value is assigned to the
\* temperature unit.
init_unit(q) ==
    IF q.exc # NoExc THEN q
    ELSE Return([q.w EXCEPT !.temperature_unit = q.ret], None)

init_query(d, e2) ==
    IF d.exc # NoExc THEN d ELSE init_unit(get_unit(d.w, e2))

\* fluke_base.__init__: e1 is the exchange of 'du=<mode>', e2 that of 'u'.
init_first(w, duplex, opened, e1) ==
    init_duplex(init_set_duplex(open(w, opened), duplex, e1))

init(w, duplex, opened, e1, e2) ==
    init_query(init_first(w, duplex, opened, e1), e2)

\* close calling connection.close() whether the connection is open or not.
close_always(w) ==
    Return([w EXCEPT !.is_open = FALSE, !.closes = @ + 1], None)

\* fluke_base.close: connection.close() is called on an open connection
\* only.
close(w) ==
    IF w.is_open THEN Return([w EXCEPT !.is_open = FALSE, !.closes = @ + 1], None)
    ELSE Return(w, None)

\* ---------------------------------------------------------- state machine

VARIABLES
    phase,             \* "new", "ready" (constructed), "failed" (__init__ raised)
    class,             \* the class of the object
    duplex_mode,       \* self.__duplex_mode as fluke_base's methods read it
    temperature_unit,  \* self.__temperature_unit as fluke_base's methods read it
    is_open,           \* connection.is_open
    rx,                \* the bytes received and not yet read
    dev_duplex,        \* the instrument's duplex mode
    dev_unit,          \* the instrument's unit
    last               \* the last call: its arguments, exchanges and outcome

vars ==
    <<phase, class, duplex_mode, temperature_unit, is_open, rx,
      dev_duplex, dev_unit, last>>

\* The longest unread input with which a call is still made.
MaxRx == 6

\* The world a call starts in.
World ==
    [duplex_mode |-> duplex_mode, temperature_unit |-> temperature_unit,
     is_open |-> is_open, rx |-> rx, dev_duplex |-> dev_duplex,
     dev_unit |-> dev_unit, writes |-> 0, wire |-> <<>>, reads |-> 0,
     closes |-> 0]

\* No exchange (a call that makes one exchange has no first of two).
NoEnv == Env("none", "none", NoReply)
\* The exchange in which nothing is sent back.
Silent == Env("ok", "none", NoReply)

\* The record of a call: op and arg name it, e1 and e are its exchanges
\* (e the only or the last one), pre_* the state it started in, the rest
\* its outcome r.
Call(op, arg, e1, e, r) ==
    [op |-> op, arg |-> arg, e1 |-> e1, e |-> e,
     pre_duplex_mode |-> duplex_mode, pre_temperature_unit |-> temperature_unit,
     pre_dev_duplex |-> dev_duplex, pre_dev_unit |-> dev_unit,
     pre_rx |-> rx, pre_is_open |-> is_open,
     exc |-> r.exc, raw |-> r.raw, ret |-> r.ret,
     writes |-> r.w.writes, wire |-> r.w.wire, reads |-> r.w.reads,
     closes |-> r.w.closes]

\* The object's and the instrument's state after a call.
Effect(r) ==
    /\ duplex_mode' = r.w.duplex_mode
    /\ temperature_unit' = r.w.temperature_unit
    /\ is_open' = r.w.is_open
    /\ rx' = r.w.rx
    /\ dev_duplex' = r.w.dev_duplex
    /\ dev_unit' = r.w.dev_unit

\* e is a possible exchange of the call part that led from world w to
\* outcome r.
Possible(w, r, e) == EnvPossible(w, r, e)

\* A call of a method on the constructed object.  After close(), and
\* while input is left unread, the model goes on with close, read and
\* get_unit only: after close() every other call would fail in
\* connection.write the same way, and every other getter would take the
\* unread line for its reply the same way.
Callable == phase = "ready" /\ Len(rx) <= MaxRx
Ready == Callable /\ is_open /\ rx = <<>>

\* The accessors the variants inherit run the same code on the same fields
\* whatever the object's class: the model calls them on fluke_base objects,
\* and on the variants get_temperature, get_unit, set_unit and the
\* variant's own.
ReadyBase == Ready /\ class = "fluke_base"

\* A call with one exchange e and outcome r.
Step(op, arg, e, r) ==
    /\ Possible(World, r, e)
    /\ Effect(r)
    /\ last' = Call(op, arg, NoEnv, e, r)
    /\ UNCHANGED <<phase, class>>

\* A call with two exchanges: r1 is the outcome of the part that makes the
\* first, r that of the whole call.
Step2(op, arg, e1, e2, r1, r) ==
    /\ Possible(World, r1, e1)
    /\ IF r1.exc # NoExc THEN e2 = Silent ELSE Possible(r1.w, r, e2)
    /\ Effect(r)
    /\ last' = Call(op, arg, e1, e2, r)
    /\ UNCHANGED class

\* The arguments the calls are made with.
DuplexArgs == {Chars("half"), Chars("full"), Chars("Full"), Chars("simplex")}
UnitArgs == {Chars("c"), Chars("f"), Chars("F"), Chars("k")}
ScanModeArgs == {Chars("on"), Chars("OFF"), Chars("auto")}
\* 12.6, 12.5, 13.5, 10.0, -0.5, 0.00001
F12_6 == PyFloat(126 * (Scale \div 10))
F12_5 == PyFloat(125 * (Scale \div 10))
F13_5 == PyFloat(135 * (Scale \div 10))
F10_0 == PyFloat(10 * Scale)
FMinus0_5 == PyFloat(-(Scale \div 2))
F0_00001 == PyFloat(Scale \div 100000)
NotNumbers == {PyStr(Chars("fast")), PyBool(TRUE)}
SetpointArgs == {PyInt(10), F12_6} \cup NotNumbers
BandArgs == {PyInt(100), PyInt(150), F12_6, FMinus0_5} \cup NotNumbers
ScanRateArgs == {F12_6, PyStr(Chars("fast")), PyNone}
HighLimitArgs == {PyInt(10), F12_6, F12_5, F13_5, FMinus0_5} \cup NotNumbers
VernierArgs ==
    {PyInt(0), PyFloat(VernierMax), F0_00001, F10_0, FMinus0_5} \cup NotNumbers
CutoutArgs == {PyInt(10), F12_6} \cup NotNumbers
\* write('t'), write('s'), write('s', '10')
WriteArgs ==
    {[command |-> Chars("t"), value |-> None],
     [command |-> Chars("s"), value |-> None],
     [command |-> Chars("s"), value |-> IntStr(10)]}
ReadArgs == {Chars("t"), Chars("u")}

\* The exchanges of a setter's write.
SetterEnvs == SetEnvs \ {Env("ok", "garbled", NoReply)}

Init ==
    /\ phase = "new"
    /\ class \in Classes
    /\ duplex_mode = Chars("half")
    /\ temperature_unit = Chars("c")
    /\ is_open = FALSE
    /\ rx = <<>>
    /\ dev_duplex \in {"half", "full"}
    /\ dev_unit \in {"c", "f"}
    /\ last = Call("none", None, NoEnv, NoEnv, Return(World, None))

\* cls(port, baud, duplex)
Construct ==
    /\ phase = "new"
    /\ \E duplex \in DuplexArgs, opened \in {"open", "closed", "SerialException"},
          e1 \in SetEnvs, e2 \in QueryEnvs(Chars("u")) :
          /\ Step2("__init__", duplex, e1, e2,
                   init_first(World, duplex, opened, e1),
                   init(World, duplex, opened, e1, e2))
          /\ phase' = IF init(World, duplex, opened, e1, e2).exc = NoExc
                      THEN "ready" ELSE "failed"

Close ==
    /\ phase = "ready"
    /\ Step("close", None, Silent, close(World))

Write ==
    /\ ReadyBase
    /\ \E a \in WriteArgs :
       \E e \in (IF a.value = None THEN QueryEnvs(a.command) ELSE SetEnvs) :
          Step("write", a, e, write(World, a.command, a.value, e))

Read ==
    /\ Callable
    /\ \E command \in ReadArgs :
       \E e \in QueryEnvs(command) :
          Step("read", command, e, read(World, command, e))

SetDuplexMode ==
    /\ ReadyBase
    /\ \E duplex \in DuplexArgs, e \in SetEnvs :
          Step("set_duplex_mode", duplex, e, set_duplex_mode(World, duplex, e))

GetTemperature ==
    /\ Ready
    /\ \E e \in QueryEnvs(Chars("t")) :
          Step("get_temperature", None, e, get_temperature(World, e))

GetSetpoint ==
    /\ ReadyBase
    /\ \E e \in QueryEnvs(Chars("s")) :
          Step("get_setpoint", None, e, get_setpoint(World, e))

SetSetpoint ==
    /\ ReadyBase
    /\ \E value \in SetpointArgs, e \in SetterEnvs :
          Step("set_setpoint", value, e, set_setpoint(World, value, e))

GetUnit ==
    /\ Callable
    /\ \E e \in QueryEnvs(Chars("u")) :
          Step("get_unit", None, e, get_unit(World, e))

SetUnit ==
    /\ Ready
    /\ \E unit \in UnitArgs, e1 \in SetterEnvs, e2 \in QueryEnvs(Chars("u")) :
          /\ Step2("set_unit", unit, e1, e2,
                   set_unit_write(World, unit, e1),
                   set_unit(World, unit, e1, e2))
          /\ UNCHANGED phase

GetProportionalBand ==
    /\ ReadyBase
    /\ \E e \in QueryEnvs(Chars("pr")) :
          Step("get_proportional_band", None, e, get_proportional_band(World, e))

SetProportionalBand ==
    /\ ReadyBase
    /\ \E band \in BandArgs, e \in SetterEnvs :
          Step("set_proportional_band", band, e, set_proportional_band(World, band, e))

GetHeaterPower ==
    /\ ReadyBase
    /\ \E e \in QueryEnvs(Chars("po")) :
          Step("get_heater_power", None, e, get_heater_power(World, e))

GetFirmwareVersion ==
    /\ ReadyBase
    /\ \E e \in QueryEnvs(Chars("*ver")) :
          Step("get_firmware_version", None, e, get_firmware_version(World, e))

\* The calls of fluke_9141.
Ready9141 == Ready /\ class = "fluke_9141"

SetScanMode ==
    /\ Ready9141
    /\ \E mode \in ScanModeArgs, e \in SetterEnvs :
          Step("set_scan_mode", mode, e, set_scan_mode(World, mode, e))

GetScanMode ==
    /\ Ready9141
    /\ \E e \in QueryEnvs(Chars("sc")) :
          Step("get_scan_mode", None, e, get_scan_mode(World, e))

SetScanRate ==
    /\ Ready9141
    /\ \E rate \in ScanRateArgs, e \in SetterEnvs :
          Step("set_scan_rate", rate, e, set_scan_rate(World, rate, e))

GetScanRate ==
    /\ Ready9141
    /\ \E e \in QueryEnvs(Chars("sr")) :
          Step("get_scan_rate", None, e, get_scan_rate(World, e))

GetSwitchHold ==
    /\ Ready9141
    /\ \E e \in QueryEnvs(Chars("ho")) :
          Step("get_switch_hold", None, e, get_switch_hold(World, e))

SetHighLimit ==
    /\ Ready9141
    /\ \E limit \in HighLimitArgs, e \in SetterEnvs :
          Step("set_high_limit", limit, e, set_high_limit(World, limit, e))

GetHighLimit ==
    /\ Ready9141
    /\ \E e \in QueryEnvs(Chars("hl")) :
          Step("get_high_limit", None, e, get_high_limit(World, e))

\* The calls of fluke_6020.
Ready6020 == Ready /\ class = "fluke_6020"

GetVernier ==
    /\ Ready6020
    /\ \E e \in QueryEnvs(Chars("v")) :
          Step("get_vernier", None, e, get_vernier(World, e))

SetVernier ==
    /\ Ready6020
    /\ \E vernier \in VernierArgs, e \in SetterEnvs :
          Step("set_vernier", vernier, e, set_vernier(World, vernier, e))

GetCutout ==
    /\ Ready6020
    /\ \E e \in QueryEnvs(Chars("c")) :
          Step("get_cutout", None, e, get_cutout(World, e))

SetCutout ==
    /\ Ready6020
    /\ \E cutout \in CutoutArgs, e \in SetterEnvs :
          Step("set_cutout", cutout, e, set_cutout(World, cutout, e))

Next ==
    \/ Construct
    \/ Close
    \/ Write
    \/ Read
    \/ SetDuplexMode
    \/ GetTemperature
    \/ GetSetpoint
    \/ SetSetpoint
    \/ GetUnit
    \/ SetUnit
    \/ GetProportionalBand
    \/ SetProportionalBand
    \/ GetHeaterPower
    \/ GetFirmwareVersion
    \/ SetScanMode
    \/ GetScanMode
    \/ SetScanRate
    \/ GetScanRate
    \/ GetSwitchHold
    \/ SetHighLimit
    \/ GetHighLimit
    \/ GetVernier
    \/ SetVernier
    \/ GetCutout
    \/ SetCutout

Spec == Init /\ [][Next]_vars

\* ------------------------------------------------------------------ claims

\* The last call was made on the constructed object.
Called(op) == phase = "ready" /\ last.op = op

\* The last call's command reached the instrument in its one exchange, and
\* no input was left unread before it.
Exchanged == last.pre_rx = <<>> /\ last.e.io = "ok" /\ last.wire # <<>>

\* The same, without an echo: the line the call read is the reply.
Answered == Exchanged /\ last.e.echo = "none"

\* C1: after a successful construction, and after any later calls, the
\* session's duplex mode is one of half, full.
C1_DuplexModeIsHalfOrFull ==
    phase = "ready" => duplex_mode \in allowed_duplex_modes

\* C2: set_duplex_mode(mode) with mode half or full leaves the session's
\* duplex mode equal to mode when its write succeeded, and unchanged when
\* the write failed.
C2_SetDuplexModeUpdates ==
    (Called("set_duplex_mode") /\ last.arg \in allowed_duplex_modes) =>
        /\ last.exc = NoExc => duplex_mode = last.arg
        /\ last.exc # NoExc => duplex_mode = last.pre_duplex_mode

\* C3: once full duplex is in effect (the last 'du' command accepted, at
\* construction or by set_duplex_mode, was 'du=full', which is when the
\* instrument is in full duplex), a write whose echo is missing or lacks the
\* command token raises EchoFailure, and a write whose echo holds it
\* completes without error.
C3_FullDuplexWriteChecksEcho ==
    (Called("write") /\ last.pre_dev_duplex = "full" /\ Exchanged) =>
        /\ last.e.echo \in {"none", "garbled"} => last.exc = EchoFailure
        /\ last.e.echo = "ok" => last.exc = NoExc

\* C4: with the instrument in full duplex echoing the command line before
\* its reply line, read(command) returns the trimmed reply line and leaves
\* nothing of the echo unread.
C4_ReadReturnsReplyAfterEcho ==
    (Called("read") /\ last.pre_dev_duplex = "full" /\ Exchanged
       /\ last.e.echo = "ok" /\ last.e.reply # NoReply) =>
        /\ last.exc = NoExc
        /\ last.ret = Strip(last.e.reply)
        /\ rx = <<>>

\* The getters.
Getters ==
    {"get_temperature", "get_setpoint", "get_unit", "get_proportional_band",
     "get_heater_power", "get_firmware_version", "get_scan_mode",
     "get_scan_rate", "get_switch_hold", "get_high_limit", "get_vernier",
     "get_cutout"}

\* C5: when the transport yields no reply line, read, and the getter that
\* called it, fails with NoDataFailure: no value, no other failure.
C5_NoReplyIsNoDataFailure ==
    (phase = "ready" /\ last.op \in Getters \cup {"read"}
       /\ Answered /\ last.e.reply = NoReply) =>
        last.exc = NoDataFailure

\* The unit letter of a well-formed reply that carries one.
UnitLetter(line) == <<line[CHOOSE i \in 1..Len(line) : line[i] \in {"C", "F"}]>>

\* The well-formed replies that carry a unit letter, by getter, and the
\* number each holds.
UnitReplies ==
    [get_temperature |-> {Line_t_C, Line_t_F},
     get_setpoint |-> {Line_set_C, Line_set_F},
     get_switch_hold |-> {Line_hold_C, Line_hold_F},
     get_cutout |-> {Line_c_in, Line_c_F}]

\* C6: a getter whose well-formed response carries a unit letter fails
\* with UnitConsistencyFailure when the letter differs (whatever the case)
\* from the session's unit, and returns a value when it is the same.
C6_UnitLetterIsChecked ==
    (phase = "ready" /\ last.op \in DOMAIN UnitReplies /\ Answered
       /\ last.e.reply \in UnitReplies[last.op]) =>
        IF Lower(UnitLetter(last.e.reply)) = last.pre_temperature_unit
        THEN last.exc = NoExc
        ELSE last.exc = UnitConsistencyFailure

\* C7: on fluke_6020 with session unit c, get_cutout returns 10.0 for the
\* response 'c: 10 C, in' and fails with CutoutFailure for 'c: 10 C, out'.
C7_CutoutInAndOut ==
    (Called("get_cutout") /\ class = "fluke_6020" /\ Answered
       /\ last.pre_temperature_unit = Chars("c")) =>
        /\ last.e.reply = Line_c_in => last.exc = NoExc /\ last.ret = 10 * Scale
        /\ last.e.reply = Line_c_out => last.exc = CutoutFailure

\* The re-query of the last call, a set_unit, reported unit u: both
\* commands reached the instrument, which echoed nothing and replied
\* 'u: C' for c, 'u: F' for f.
Reported(u) ==
    /\ last.e1.io = "ok" /\ last.e1.echo = "none"
    /\ last.e.io = "ok" /\ last.e.echo = "none"
    /\ Len(last.wire) = 2
    /\ last.e.reply = (IF u = Chars("c") THEN Line_u_C ELSE Line_u_F)

\* C8: set_unit(unit) with unit c or f (in either case) sends 'u=<unit>'
\* and re-queries with 'u'; the session's unit becomes unit when the
\* re-query reports it and is unchanged otherwise.  With any other unit it
\* fails with ValidationFailure and writes nothing.
C8_SetUnitTrustsOnlyTheRequery ==
    Called("set_unit") =>
        IF Lower(last.arg) \in allowed_temperature_units
        THEN /\ last.exc # ValidationFailure
             /\ last.wire # <<>> => last.wire[1] = Encode(Chars("u"), last.arg)
             /\ Len(last.wire) = 2 => last.wire[2] = Encode(Chars("u"), None)
             /\ Reported(Lower(last.arg)) =>
                    last.exc = NoExc /\ temperature_unit = Lower(last.arg)
             /\ ~Reported(Lower(last.arg)) =>
                    temperature_unit = last.pre_temperature_unit
        ELSE /\ last.exc = ValidationFailure
             /\ last.writes = 0
             /\ temperature_unit = last.pre_temperature_unit

\* A stale acknowledgment was not trusted, and a fresh one was.
C8_Witness ==
    /\ Called("set_unit") /\ last.arg = Chars("F")
    /\ last.pre_temperature_unit = Chars("c")
    /\ Reported(Chars("f")) /\ temperature_unit = Chars("f")

\* The setters of a number, and whether each one's range admits x.
NumberSetters ==
    {"set_setpoint", "set_proportional_band", "set_scan_rate",
     "set_high_limit", "set_vernier", "set_cutout"}

InRange(op, val) ==
    CASE op = "set_proportional_band" -> Num(val) >= 0 /\ Num(val) <= 100 * Scale
      [] op = "set_vernier" -> Num(val) >= 0 /\ Num(val) <= VernierMax
      [] OTHER -> TRUE

\* C9: a setter of a number given an argument that is no number, or one
\* outside its range, fails with ValidationFailure and writes nothing.
C9_BadArgumentIsNotSent ==
    (phase = "ready" /\ last.op \in NumberSetters
       /\ (IsNumber(last.arg) => ~InRange(last.op, last.arg))) =>
        last.exc = ValidationFailure /\ last.writes = 0

\* C10: a call on the constructed object that fails leaves the session's
\* temperature unit and duplex mode as they were when it began.
C10_FailureLeavesSessionState ==
    (phase = "ready" /\ last.exc # NoExc) =>
        /\ temperature_unit = last.pre_temperature_unit
        /\ duplex_mode = last.pre_duplex_mode

\* set_unit('f') wrote 'u=f' and its re-query, which failed.
C10_Witness ==
    /\ Called("set_unit") /\ last.arg = Chars("f")
    /\ last.pre_temperature_unit = Chars("c")
    /\ Len(last.wire) = 2 /\ last.exc \in {FormatFailure, TransportFailure}
    /\ dev_unit = "f"

\* The setters, and the operations on the instrument.
Setters ==
    NumberSetters \cup {"set_scan_mode", "set_unit", "set_duplex_mode"}

DeviceOperations == Getters \cup Setters

\* C11 as stated: every operation on the instrument whose argument was
\* accepted performs exactly one command write and at most one read of a
\* reply line.
C11_ExactlyOneWrite ==
    (phase = "ready" /\ last.op \in DeviceOperations
       /\ last.exc # ValidationFailure) =>
        last.writes = 1 /\ last.reads <= 1

\* C11: every operation on the instrument other than set_unit performs at
\* most one command write (exactly one when its argument was accepted) and
\* then at most one read of a reply line, a setter none; set_unit performs
\* 'u=<unit>' and then the one write and at most one read of its re-query.
\* A read happens only after the write before it succeeded, and nothing is
\* written or read after a failure.
C11_OneWriteThenAtMostOneRead ==
    (phase = "ready" /\ last.op \in DeviceOperations) =>
        /\ last.reads <= 1
        /\ last.reads = 1 => Len(last.wire) = last.writes
        /\ last.writes > Len(last.wire) =>
               last.writes = Len(last.wire) + 1 /\ last.exc = TransportFailure
        /\ last.exc = ValidationFailure => last.writes = 0 /\ last.reads = 0
        /\ IF last.op = "set_unit"
           THEN /\ last.writes <= 2
                /\ last.reads = 1 => last.writes = 2
                /\ last.exc = NoExc => last.writes = 2 /\ last.reads = 1
           ELSE /\ last.writes <= 1
                /\ last.exc # ValidationFailure => last.writes = 1
                /\ last.op \in Setters => last.reads = 0
                /\ (last.op \in Getters /\ last.exc = NoExc) => last.reads = 1

\* set_unit wrote 'u=f' and 'u', and its one read failed in the transport.
C11_Witness ==
    /\ Called("set_unit") /\ last.e.io = "rfail"
    /\ last.exc = TransportFailure /\ last.writes = 2 /\ last.reads = 1

\* The transport opened in the last call, a construction (nothing in
\* __init__ closes it again).
Constructing == last.op = "__init__" /\ is_open

\* C12: a construction, or a set_duplex_mode, with a duplex token that is
\* not half or full after lower-casing fails with ValidationFailure and
\* writes nothing; a construction with half or full (in any case) sends
\* 'du=<mode>' first and succeeds when both commands reach the instrument
\* and it answers the unit query with 'u: C' or 'u: F'.
C12_DuplexTokenIsValidated ==
    /\ (Called("set_duplex_mode") /\ Lower(last.arg) \notin allowed_duplex_modes) =>
           last.exc = ValidationFailure /\ last.writes = 0
    /\ Constructing =>
           IF Lower(last.arg) \notin allowed_duplex_modes
           THEN last.exc = ValidationFailure /\ last.writes = 0
           ELSE /\ last.wire # <<>> =>
                       last.wire[1] = Encode(Chars("du"), Lower(last.arg))
                /\ (last.e1.io = "ok" /\ last.e.io = "ok"
                      /\ last.e.reply \in {Line_u_C, Line_u_F}) =>
                       phase = "ready" /\ last.exc = NoExc

\* The calls that may change the session's state.
SessionChangers == {"__init__", "set_unit", "set_duplex_mode"}

\* C13: a call of anything but set_unit and set_duplex_mode on the
\* constructed object (a getter, another setter, write, read, close),
\* whether it returns or raises, leaves the session's temperature unit and
\* duplex mode as they were.
C13_OnlyUnitAndDuplexChangeSession ==
    (phase = "ready" /\ last.op \notin SessionChangers) =>
        /\ temperature_unit = last.pre_temperature_unit
        /\ duplex_mode = last.pre_duplex_mode

\* get_unit returned f, the unit the instrument reported, and the session's
\* unit is still c.
C13_Witness ==
    /\ Called("get_unit") /\ last.exc = NoExc /\ last.ret = Chars("f")
    /\ last.pre_temperature_unit = Chars("c") /\ temperature_unit = Chars("c")

\* The decimal numeral of a number: an int's digits, a float's digits with
\* a point and at least one decimal.
DecimalNumeral(val) ==
    IF val.t = "int" THEN IntStr(val.v)
    ELSE (IF val.v < 0 THEN <<"-">> ELSE <<>>)
         \o NatStr((IF val.v < 0 THEN -val.v ELSE val.v) \div Scale) \o <<".">>
         \o (IF val.v % Scale = 0 THEN <<"0">>
             ELSE FracStr((IF val.v < 0 THEN -val.v ELSE val.v) % Scale, ScaleDigits))

\* C14: set_vernier(v) with a number v, 0 <= v <= 9.99999, performs one
\* write, of 'v=' and v's decimal numeral; with any other v it fails with
\* ValidationFailure and writes nothing.
C14_VernierRangeAndToken ==
    (Called("set_vernier") /\ class = "fluke_6020") =>
        IF IsNumber(last.arg) /\ InRange("set_vernier", last.arg)
        THEN /\ last.exc # ValidationFailure
             /\ last.writes = 1
             /\ last.wire # <<>> =>
                    last.wire = <<Encode(Chars("v"), DecimalNumeral(last.arg))>>
        ELSE last.exc = ValidationFailure /\ last.writes = 0

\* The integers a high limit of the model can round to.
HighLimits == (-1)..14

\* n is an integer nearest to x/Scale: no further from it than a half.
Nearest(n, x) == 2 * (n * Scale - x) <= Scale /\ 2 * (x - n * Scale) <= Scale

\* x/Scale lies halfway between two integers.
Halfway(x) == (2 * x) % Scale = 0 /\ x % Scale # 0

\* set_high_limit given a number wrote one line, 'hl=<n>', or failed in the
\* transport's write.
HighLimitSent(n) ==
    /\ last.exc # ValidationFailure
    /\ last.writes = 1
    /\ last.wire # <<>> => last.wire = <<Encode(Chars("hl"), IntStr(n))>>

\* C15 as stated, the nearest integer taken as usual where two are equally
\* near: set_high_limit(limit) with a number sends 'hl=<n>' with n the
\* integer nearest to limit, the upper one for a limit halfway between two.
C15_HalfwayRoundsUp ==
    (Called("set_high_limit") /\ IsNumber(last.arg)) =>
        \E n \in HighLimits :
           /\ HighLimitSent(n)
           /\ Nearest(n, Num(last.arg))
           /\ Halfway(Num(last.arg)) => n * Scale > Num(last.arg)

\* C15: set_high_limit(limit) with a number sends 'hl=<n>' with n an
\* integer nearest to limit (12.6 is sent as 13), and for a limit halfway
\* between two integers the even one of the two.
C15_HighLimitIsRounded ==
    (Called("set_high_limit") /\ IsNumber(last.arg)) =>
        /\ \E n \in HighLimits :
              /\ HighLimitSent(n)
              /\ Nearest(n, Num(last.arg))
              /\ Halfway(Num(last.arg)) => n % 2 = 0
        /\ last.arg = F12_6 => HighLimitSent(13)

\* set_high_limit(12.5), halfway between 12 and 13, wrote 'hl=12'.
C15_Witness ==
    /\ Called("set_high_limit") /\ last.arg = F12_5
    /\ last.wire = <<Encode(Chars("hl"), IntStr(12))>>

\* C16: close() on an open transport closes it with one connection.close();
\* close() on a closed one returns without error and without calling
\* connection.close(); the transport is closed after either.
C16_CloseIsIdempotent ==
    Called("close") =>
        /\ last.exc = NoExc
        /\ ~is_open
        /\ last.closes = (IF last.pre_is_open THEN 1 ELSE 0)
        /\ last.writes = 0 /\ last.reads = 0

\* close() was called on the closed transport.
C16_Witness ==
    /\ Called("close") /\ ~last.pre_is_open
    /\ last.exc = NoExc /\ last.closes = 0 /\ ~is_open

\* The reply lines of the model that conform to each getter's grammar
\* (digits, a point, digits for a decimal).
WellFormedReplies ==
    [get_temperature |-> {Line_t_C, Line_t_F},
     get_setpoint |-> {Line_set_C, Line_set_F},
     get_unit |-> {Line_u_C, Line_u_F},
     get_proportional_band |-> {Line_pr},
     get_heater_power |-> {Line_po},
     get_firmware_version |-> {Line_ver},
     get_scan_mode |-> {Line_scan_ON, Line_scan_OFF},
     get_scan_rate |-> {Line_srat},
     get_switch_hold |-> {Line_hold_C, Line_hold_F},
     get_high_limit |-> {Line_hl},
     get_vernier |-> {Line_v},
     get_cutout |-> {Line_c_in, Line_c_out, Line_c_F}]

\* C17: a getter whose reply line is not empty and does not conform to its
\* grammar fails with FormatFailure carrying the trimmed line; it returns
\* no value and leaves the session's state as it was.
C17_MalformedReplyIsFormatFailure ==
    (phase = "ready" /\ last.op \in Getters /\ Answered
       /\ last.e.reply # NoReply
       /\ last.e.reply \notin WellFormedReplies[last.op]) =>
        /\ last.exc = FormatFailure
        /\ last.raw = Strip(last.e.reply)
        /\ last.ret = None
        /\ temperature_unit = last.pre_temperature_unit
        /\ duplex_mode = last.pre_duplex_mode

\* C18: get_firmware_version given a reply that conforms to the firmware
\* grammar, 'ver.9141,1.20', returns the version '1.20'; it raises
\* FormatFailure for no conforming line.
C18_FirmwareVersionIsParsed ==
    (Called("get_firmware_version") /\ Answered /\ last.e.reply = Line_ver) =>
        /\ last.exc = NoExc
        /\ last.ret = <<"1", ".", "2", "0">>

\* The instrument's unit as the session holds a unit.
UnitOf(u) == IF u = "c" THEN Chars("c") ELSE Chars("f")

\* The reply of the last call reported the unit the instrument had, if it
\* reported one.
TruthfulReply ==
    (\E i \in 1..Len(last.e.reply) : last.e.reply[i] \in {"C", "F"}) =>
        Lower(UnitLetter(last.e.reply)) = UnitOf(dev_unit)

\* C19: with an instrument that reports the unit it has, the session's
\* unit equals the instrument's after a construction, and after every call
\* that began with the two equal, whether the call returned or raised.
C19_SessionUnitIsInstrumentUnit ==
    (/\ phase = "ready"
     /\ TruthfulReply
     /\ last.op # "__init__" => last.pre_temperature_unit = UnitOf(last.pre_dev_unit)) =>
        temperature_unit = UnitOf(dev_unit)

\* C20: when __init__ raises, the transport it opened is not open any more.
C20_FailedConstructionClosesTransport ==
    phase = "failed" => ~is_open

====
